---- MODULE Spec2Model ----
(***************************************************************************)
(* Model of youtube_analysis_streamlit.py: the trending-videos fetcher,    *)
(* the duration normalizer, the feature derivation and the export/reload   *)
(* hand-off of the module-level pipeline.                                  *)
(***************************************************************************)
EXTENDS Integers, Sequences, FiniteSets, TLC

VARIABLES
    \* ---- get_trending_videos (lines 9-49)
    max_results,   \* the max_results argument
    request,       \* the pending page request: the page number, or None
    videos,        \* the accumulated list of video_details
    nserved,       \* how many items of the platform's list have been served
    nreq,          \* how many page requests were executed
    firstEmpty,    \* whether the first page served held no items
    fpc,           \* "loop", "done", or "idle" when the fetcher is not running
    result         \* the value returned by get_trending_videos

fetchVars == <<max_results, request, videos, nserved, nreq, firstEmpty, fpc, result>>

VARIABLES
    \* ---- the duration column (lines 166-173)
    iso,           \* the ISO-8601 duration string of the record as fetched
    iso_parts,     \* the components the platform encoded in iso
    duration,      \* data['duration'] of the record
    video_length,  \* data['video_length'] of the record
    dpc            \* "loaded", "converted", "classified", or "idle"

durVars == <<iso, iso_parts, duration, video_length, dpc>>

VARIABLES
    \* ---- the published_at column (lines 154-160, 299)
    raw_published, \* the UTC timestamp of the record as fetched
    published_at,  \* data['published_at'] of the record
    week,          \* data['week']
    time_slot,     \* data['time_slot']
    publish_hour,  \* data['publish_hour']
    tpc            \* "loaded", "utc", "local", "derived", "hour", or "idle"

timeVars == <<raw_published, published_at, week, time_slot, publish_hour, tpc>>

VARIABLES
    \* ---- the description column through export and reload (lines 124-175)
    fetched_desc,     \* the description of each fetched record
    csv_desc,         \* the description cells of trending_videos.csv
    description,      \* data['description'] after read_csv
    description_len,  \* data['description_len']
    description_type, \* data['description_type']
    cpc               \* "fetched", "saved", "loaded", "measured", "typed",
                      \* "failed", or "idle"

descVars == <<fetched_desc, csv_desc, description, description_len, description_type, cpc>>

VARIABLES
    \* ---- concurrent runs of the module-level pipeline (lines 116-271)
    rpc,              \* per run: "start", "fetched", "saved", "loaded",
                      \* "analysed", "done", "aborted"
    trending_videos,  \* per run: the list returned by get_trending_videos
    file,             \* the content of 'trending_videos.csv'
    data,             \* per run: the table read back by pd.read_csv
    wrote,            \* per run: whether the run has written the export file
    auth_failed       \* per run: whether an API call of the run raised

runVars == <<rpc, trending_videos, file, data, wrote, auth_failed>>

vars == <<fetchVars, durVars, timeVars, descVars, runVars>>

\* ------------------------------------------------------------------------
\* Bounds of the model
MaxPages == 2      \* the platform serves at most this many pages
MaxSmall == 2      \* max_results is drawn from 0..MaxSmall and from
MaxOver == 2       \* PageSize-1 .. PageSize+MaxOver
MaxShort == 2      \* page sizes within MaxShort of empty or full (EdgeSizes)
MaxIsoDays == 1    \* the D component of a duration is absent or in 0..MaxIsoDays
MaxIsoHours == 1   \* the H component is absent or in 0..MaxIsoHours
MaxIsoMinSec == 60 \* the M and S components are absent or in 0..MaxIsoMinSec
MaxDay == 6        \* publish dates are 0..MaxDay days after 1970-01-01
MaxDescLen == 1501 \* descriptions are 0..MaxDescLen characters long
MaxRunItems == 1   \* a run of the pipeline fetches 0..MaxRunItems records

\* Program constants
PageSize == 50     \* maxResults=50 of the list request
KolkataOffset == 330  \* 'Asia/Kolkata': UTC+5:30, in minutes

\* Python's None for the request object (page numbers start at 1)
None == 0

\* dict.get(k, default)
Get(d, k, default) == IF k \in DOMAIN d THEN d[k] ELSE default

EmptyDict == [k \in {} |-> 0]

StatKeys == <<"viewCount", "likeCount", "dislikeCount", "favoriteCount", "commentCount">>

Bit(n, b) == (n \div (2 ^ b)) % 2 = 1

\* The platform's trending list: the raw item at rank i.  Which optional keys
\* (tags, caption, the five statistics) an item carries varies with i so that
\* every subset of {tags} \cup statistics occurs among the first 64 ranks.
\* The values of the max_results argument
MaxResultsArgs == (0..MaxSmall) \cup ((PageSize - 1)..(PageSize + MaxOver))

RawItem(i) ==
    LET p == (i - 1) % 64
        stats == [k \in {StatKeys[j] : j \in {j \in 1..5 : Bit(p, j)}} |-> (i + Len(k)) % 4]
        snippet == [title |-> i, description |-> i % 5, publishedAt |-> i % 7,
                    channelId |-> i % 3, channelTitle |-> i % 3, categoryId |-> i % 4]
                   @@ (IF Bit(p, 0) THEN "tags" :> <<"t", i>> ELSE EmptyDict)
        content == [duration |-> i % 11, definition |-> IF i % 2 = 0 THEN "hd" ELSE "sd"]
                   @@ (IF i % 3 = 0 THEN EmptyDict ELSE "caption" :> "true")
    IN [id |-> i, snippet |-> snippet, contentDetails |-> content, statistics |-> stats]

\* The list as far as MaxPages full pages reach
CatalogueTable == [i \in 1..(PageSize * MaxPages) |-> RawItem(i)]

Catalogue(i) == CatalogueTable[i]

\* video_details with dislike_count read from the likeCount key
video_details_wrongkey(item) ==
    [video_id |-> item["id"],
     title |-> item["snippet"]["title"],
     description |-> item["snippet"]["description"],
     published_at |-> item["snippet"]["publishedAt"],
     channel_id |-> item["snippet"]["channelId"],
     channel_title |-> item["snippet"]["channelTitle"],
     category_id |-> item["snippet"]["categoryId"],
     tags |-> Get(item["snippet"], "tags", <<>>),
     duration |-> item["contentDetails"]["duration"],
     definition |-> item["contentDetails"]["definition"],
     caption |-> Get(item["contentDetails"], "caption", "false"),
     view_count |-> Get(item["statistics"], "viewCount", 0),
     like_count |-> Get(item["statistics"], "likeCount", 0),
     dislike_count |-> Get(item["statistics"], "likeCount", 0),
     favorite_count |-> Get(item["statistics"], "favoriteCount", 0),
     comment_count |-> Get(item["statistics"], "commentCount", 0)]

\* lines 26-43: the record built from one raw item
video_details(item) ==
    [video_id |-> item["id"],
     title |-> item["snippet"]["title"],
     description |-> item["snippet"]["description"],
     published_at |-> item["snippet"]["publishedAt"],
     channel_id |-> item["snippet"]["channelId"],
     channel_title |-> item["snippet"]["channelTitle"],
     category_id |-> item["snippet"]["categoryId"],
     tags |-> Get(item["snippet"], "tags", <<>>),
     duration |-> item["contentDetails"]["duration"],
     definition |-> item["contentDetails"]["definition"],
     caption |-> Get(item["contentDetails"], "caption", "false"),
     view_count |-> Get(item["statistics"], "viewCount", 0),
     like_count |-> Get(item["statistics"], "likeCount", 0),
     dislike_count |-> Get(item["statistics"], "dislikeCount", 0),
     favorite_count |-> Get(item["statistics"], "favoriteCount", 0),
     comment_count |-> Get(item["statistics"], "commentCount", 0)]

\* lines 25-44: the for loop appending one record per item of the response
AppendItems(vs, items) ==
    vs \o [j \in 1..Len(items) |-> video_details(items[j])]

\* the loop condition with <= for <
LoopCond_le == request # None /\ Len(videos) <= max_results

\* line 23: the loop condition
LoopCond == request # None /\ Len(videos) < max_results

\* line 47: list_next gives the next request, or None without a nextPageToken
list_next(req, response) ==
    IF "nextPageToken" \in DOMAIN response THEN req + 1 ELSE None

\* the return value without the final slice
Truncate_none(vs, n) == vs

\* line 49: videos[:max_results]
Truncate(vs, n) == SubSeq(vs, 1, IF n < Len(vs) THEN n ELSE Len(vs))

\* The responses the platform can give to the pending request: the next k
\* items of its list (0 <= k <= PageSize), with or without a continuation.
Responses(sizes) ==
    { [items |-> [j \in 1..k |-> Catalogue(nserved + j)]]
        @@ (IF more THEN "nextPageToken" :> (request + 1) ELSE EmptyDict)
      : k \in sizes, more \in {m \in BOOLEAN : m => request < MaxPages} }

\* Every page size, and the page sizes near empty and near full
AllSizes == 0..PageSize
EdgeSizes == (0..MaxShort) \cup ((PageSize - MaxShort)..PageSize)

\* lines 23-47: one iteration of the while loop
ExecutePage(sizes) ==
    /\ fpc = "loop"
    /\ LoopCond
    /\ \E response \in Responses(sizes) :
          /\ videos' = AppendItems(videos, response["items"])
          /\ nserved' = nserved + Len(response["items"])
          /\ request' = list_next(request, response)
          /\ firstEmpty' = IF nreq = 0 THEN Len(response["items"]) = 0 ELSE firstEmpty
    /\ nreq' = nreq + 1
    /\ UNCHANGED <<max_results, fpc, result>>
    /\ UNCHANGED <<durVars, timeVars, descVars, runVars>>

\* lines 23, 49: the loop exits and the truncated list is returned
Return ==
    /\ fpc = "loop"
    /\ ~LoopCond
    /\ result' = Truncate(videos, max_results)
    /\ fpc' = "done"
    /\ UNCHANGED <<max_results, request, videos, nserved, nreq, firstEmpty>>
    /\ UNCHANGED <<durVars, timeVars, descVars, runVars>>

\* The fetcher, respectively the duration column, when it is not modelled
IdleFetch ==
    /\ max_results = 0
    /\ request = None
    /\ videos = <<>>
    /\ nserved = 0
    /\ nreq = 0
    /\ firstEmpty = FALSE
    /\ fpc = "idle"
    /\ result = <<>>

IdleDur ==
    /\ iso = <<>>
    /\ iso_parts = <<>>
    /\ duration = <<>>
    /\ video_length = "unset"
    /\ dpc = "idle"

IdleTime ==
    /\ raw_published = <<>>
    /\ published_at = <<>>
    /\ week = "unset"
    /\ time_slot = "unset"
    /\ publish_hour = 0
    /\ tpc = "idle"

IdleDesc ==
    /\ fetched_desc = <<>>
    /\ csv_desc = <<>>
    /\ description = <<>>
    /\ description_len = <<>>
    /\ description_type = <<>>
    /\ cpc = "idle"

IdleRun ==
    /\ rpc = <<>>
    /\ trending_videos = <<>>
    /\ file = <<>>
    /\ data = <<>>
    /\ wrote = <<>>
    /\ auth_failed = <<>>

InitFetch ==
    /\ IdleDur
    /\ IdleTime
    /\ IdleDesc
    /\ IdleRun
    /\ max_results \in MaxResultsArgs
    /\ request = 1
    /\ videos = <<>>
    /\ nserved = 0
    /\ nreq = 0
    /\ firstEmpty = FALSE
    /\ fpc = "loop"
    /\ result = <<>>

NextFetch == ExecutePage(AllSizes) \/ Return

SpecFetch == InitFetch /\ [][NextFetch]_vars

\* The loop is sequential code: it always takes its next step.  Pages are
\* drawn from EdgeSizes here.
NextFetchEdge == ExecutePage(EdgeSizes) \/ Return

SpecFetchFair == InitFetch /\ [][NextFetchEdge]_vars /\ WF_vars(NextFetchEdge)

\* ------------------------------------------------------------------------
\* Claims about get_trending_videos

Min(a, b) == IF a < b THEN a ELSE b

\* The records of the first n items of the platform's list, in rank order
FirstRecords(n) == [i \in 1..n |-> video_details(Catalogue(i))]

\* What the returned list must be: the first min(max_results, T) items served.
\* When the cursor is exhausted T = nserved; when it is not, the loop stopped
\* because nserved >= max_results, so min(max_results, T) = max_results.
ReturnsPrefix ==
    /\ result = FirstRecords(Min(max_results, nserved))
    /\ Len(result) <= max_results
    /\ (request = None /\ nserved <= max_results => Len(result) = nserved)
    /\ (request # None => Len(result) = max_results)

\* C1 as stated: the returned list is the first min(max_results, T) items of
\* the served pages in order, and it is empty whenever the first page is empty.
C1_Original ==
    fpc = "done" => /\ ReturnsPrefix
                    /\ (firstEmpty => result = <<>>)

\* C1 amended: the returned list is the first min(max_results, T) items of the
\* served pages in order, and it is empty when the first page is empty and no
\* later page holds an item (T = 0).
C1_Prefix ==
    fpc = "done" => /\ ReturnsPrefix
                    /\ (firstEmpty /\ nserved = 0 => result = <<>>)

C1_Witness ==
    /\ fpc = "done"
    /\ nreq = 2
    /\ Len(videos) > max_results
    /\ max_results > PageSize
    /\ Len(result) = max_results

\* C2: a page request is executed only while the cursor is non-null and fewer
\* than max_results records are accumulated; the loop exits only when one of
\* the two fails; the accumulated count exceeds max_results by fewer than
\* PageSize; and the loop terminates.
C2_Pagination ==
    /\ [][nreq' # nreq => (request # None /\ Len(videos) < max_results)]_vars
    /\ [](fpc = "done" => (request = None \/ Len(videos) >= max_results))
    /\ [](Len(videos) - max_results < PageSize)
    /\ <>(fpc = "done")

C2_Witness ==
    /\ fpc = "done"
    /\ nreq = 2
    /\ request = None
    /\ Len(videos) - max_results = PageSize - 1

\* C10: every record equals its raw item field by field, an absent statistic
\* reads 0, absent tags read as the empty sequence, and there is one record
\* per item received.
C10_Defaults ==
    /\ Len(videos) = nserved
    /\ \A i \in 1..Len(videos) :
          LET item == Catalogue(i)
              rec == videos[i]
              stat(key, field) ==
                  IF key \in DOMAIN item["statistics"]
                  THEN rec[field] = item["statistics"][key]
                  ELSE rec[field] = 0
          IN /\ stat("viewCount", "view_count")
             /\ stat("likeCount", "like_count")
             /\ stat("dislikeCount", "dislike_count")
             /\ stat("favoriteCount", "favorite_count")
             /\ stat("commentCount", "comment_count")
             /\ rec["tags"] = (IF "tags" \in DOMAIN item["snippet"]
                               THEN item["snippet"]["tags"] ELSE <<>>)
             /\ rec["video_id"] = item["id"]
             /\ rec["title"] = item["snippet"]["title"]
             /\ rec["description"] = item["snippet"]["description"]
             /\ rec["published_at"] = item["snippet"]["publishedAt"]
             /\ rec["channel_id"] = item["snippet"]["channelId"]
             /\ rec["channel_title"] = item["snippet"]["channelTitle"]
             /\ rec["category_id"] = item["snippet"]["categoryId"]
             /\ rec["duration"] = item["contentDetails"]["duration"]
             /\ rec["definition"] = item["contentDetails"]["definition"]

\* all 64 subsets of the optional keys have gone through video_details
C10_Witness ==
    /\ fpc = "done"
    /\ Len(videos) >= 64
    /\ DOMAIN Catalogue(1)["statistics"] = {}
    /\ videos[1]["dislike_count"] = 0
    /\ videos[1]["tags"] = <<>>

\* ------------------------------------------------------------------------
\* Strings are sequences of one-character strings.

Digits == <<"0", "1", "2", "3", "4", "5", "6", "7", "8", "9">>

IsDigit(c) == \E d \in 1..10 : Digits[d] = c

DigitVal(c) == (CHOOSE d \in 1..10 : Digits[d] = c) - 1

\* str(n) and f"{n}" of an integer
RECURSIVE NatToStr(_)
NatToStr(n) == IF n < 10 THEN <<Digits[n + 1]>>
               ELSE NatToStr(n \div 10) \o <<Digits[(n % 10) + 1]>>

IntToStr(n) == IF n < 0 THEN <<"-">> \o NatToStr(0 - n) ELSE NatToStr(n)

\* f"{n:02d}" without the zero padding
Pad2_nopad(n) == IntToStr(n)

\* f"{n:02d}": at least two characters, zero-padded on the left
Pad2(n) == IF Len(IntToStr(n)) < 2 THEN <<"0">> \o IntToStr(n) ELSE IntToStr(n)

\* int(s) of a decimal string
RECURSIVE ParseNat(_)
ParseNat(s) == IF s = <<>> THEN 0
               ELSE ParseNat(SubSeq(s, 1, Len(s) - 1)) * 10 + DigitVal(s[Len(s)])

int(s) == IF s # <<>> /\ s[1] = "-" THEN 0 - ParseNat(Tail(s)) ELSE ParseNat(s)

\* s.split(sep)
RECURSIVE Split(_, _)
Split(s, sep) ==
    IF \A i \in 1..Len(s) : s[i] # sep THEN <<s>>
    ELSE LET i == CHOOSE i \in 1..Len(s) :
                     s[i] = sep /\ \A j \in 1..(i - 1) : s[j] # sep
         IN <<SubSeq(s, 1, i - 1)>> \o Split(SubSeq(s, i + 1, Len(s)), sep)

\* isodate.parse_duration(...).total_seconds(): the designators W, D of the
\* date part and H, M, S of the time part, each preceded by its number
RECURSIVE ScanDuration(_, _, _, _)
ScanDuration(s, inTime, num, total) ==
    IF s = <<>> THEN total
    ELSE LET c == Head(s)
             weight == IF c = "W" THEN 604800
                       ELSE IF c = "D" THEN 86400
                       ELSE IF c = "H" THEN 3600
                       ELSE IF c = "M" /\ inTime THEN 60
                       ELSE 1
         IN IF c = "P" THEN ScanDuration(Tail(s), FALSE, 0, total)
            ELSE IF c = "T" THEN ScanDuration(Tail(s), TRUE, 0, total)
            ELSE IF IsDigit(c) THEN ScanDuration(Tail(s), inTime, num * 10 + DigitVal(c), total)
            ELSE ScanDuration(Tail(s), inTime, 0, total + num * weight)

total_seconds(duration_str) == ScanDuration(duration_str, FALSE, 0, 0)

\* convert_duration with the minutes rolled over at the hour
convert_duration_rollover(duration_str) ==
    LET total_sec == total_seconds(duration_str)
        mins == (total_sec \div 60) % 60
        secs == total_sec % 60
    IN IntToStr(mins) \o <<":">> \o Pad2(secs)

\* lines 55-61
convert_duration(duration_str) ==
    LET total_sec == total_seconds(duration_str)
        mins == total_sec \div 60
        secs == total_sec % 60
    IN IntToStr(mins) \o <<":">> \o Pad2(secs)

\* lines 63-66
duration_to_seconds(duration_str) ==
    LET parts == Split(duration_str, ":")
        minutes == int(parts[1])
        seconds == int(parts[2])
    IN minutes * 60 + seconds

\* the lambda of line 173 with <= for <
video_length_of_le(x) ==
    IF duration_to_seconds(x) <= duration_to_seconds(<<"7", ":", "0", "0">>)
    THEN "short" ELSE "long"

\* line 173: the lambda applied to the duration column
video_length_of(x) ==
    IF duration_to_seconds(x) < duration_to_seconds(<<"7", ":", "0", "0">>)
    THEN "short" ELSE "long"

\* An optional component: <<>> when the designator is left out, <<n>> otherwise
Opt(S) == {<<>>} \cup {<<n>> : n \in S}

IsoPart(c, unit) == IF c = <<>> THEN <<>> ELSE IntToStr(c[1]) \o <<unit>>

\* The platform's encoding of the components p = <<d, h, m, s>>
IsoString(p) ==
    <<"P">> \o IsoPart(p[1], "D")
    \o (IF p[2] = <<>> /\ p[3] = <<>> /\ p[4] = <<>> THEN <<>>
        ELSE <<"T">> \o IsoPart(p[2], "H") \o IsoPart(p[3], "M") \o IsoPart(p[4], "S"))

IsoInputs ==
    { p \in Opt(0..MaxIsoDays) \X Opt(0..MaxIsoHours)
            \X Opt(0..MaxIsoMinSec) \X Opt(0..MaxIsoMinSec) :
        \E i \in 1..4 : p[i] # <<>> }

\* line 166: data['duration'].apply(convert_duration)
ConvertDurationColumn ==
    /\ dpc = "loaded"
    /\ duration' = convert_duration(duration)
    /\ dpc' = "converted"
    /\ UNCHANGED <<iso, iso_parts, video_length>>
    /\ UNCHANGED <<fetchVars, timeVars, descVars, runVars>>

\* line 173: data['video_length']
DeriveVideoLength ==
    /\ dpc = "converted"
    /\ video_length' = video_length_of(duration)
    /\ dpc' = "classified"
    /\ UNCHANGED <<iso, iso_parts, duration>>
    /\ UNCHANGED <<fetchVars, timeVars, descVars, runVars>>

InitDur ==
    /\ IdleFetch
    /\ IdleTime
    /\ IdleDesc
    /\ IdleRun
    /\ iso_parts \in IsoInputs
    /\ iso = IsoString(iso_parts)
    /\ duration = iso
    /\ video_length = "unset"
    /\ dpc = "loaded"

NextDur == ConvertDurationColumn \/ DeriveVideoLength

SpecDur == InitDur /\ [][NextDur]_vars

\* ------------------------------------------------------------------------
\* Claims about the duration normalizer

Value(c) == IF c = <<>> THEN 0 ELSE c[1]

\* The total of the encoded components, in seconds
TotalOf(p) == Value(p[1]) * 86400 + Value(p[2]) * 3600 + Value(p[3]) * 60 + Value(p[4])

\* C5: the seconds read back from the display string are the duration's total.
C5_RoundTrip ==
    dpc \in {"converted", "classified"} =>
        duration_to_seconds(duration) = TotalOf(iso_parts)

C5_Witness ==
    /\ dpc = "converted"
    /\ TotalOf(iso_parts) >= 3600
    /\ TotalOf(iso_parts) % 60 # 0
    /\ duration_to_seconds(duration) = TotalOf(iso_parts)

\* C6: the display string is the decimal minutes (total div 60, no leading
\* zero, no rollover), a colon, and the seconds (total mod 60) as exactly two
\* digits; PT0S gives 0:00, PT7M0S gives 7:00, PT1H5M9S gives 65:09.
C6_Display ==
    dpc = "converted" =>
        LET parts == Split(duration, ":")
            t == TotalOf(iso_parts)
        IN /\ Len(parts) = 2
           /\ \A i \in 1..Len(parts[1]) : IsDigit(parts[1][i])
           /\ Len(parts[1]) >= 1
           /\ (Len(parts[1]) > 1 => parts[1][1] # "0")
           /\ ParseNat(parts[1]) = t \div 60
           /\ Len(parts[2]) = 2
           /\ \A i \in 1..2 : IsDigit(parts[2][i])
           /\ ParseNat(parts[2]) = t % 60
           /\ (iso = <<"P", "T", "0", "S">> => duration = <<"0", ":", "0", "0">>)
           /\ (iso = <<"P", "T", "7", "M", "0", "S">> => duration = <<"7", ":", "0", "0">>)
           /\ (iso = <<"P", "T", "1", "H", "5", "M", "9", "S">>
                 => duration = <<"6", "5", ":", "0", "9">>)

C6_Witness ==
    /\ dpc = "converted"
    /\ iso = <<"P", "T", "1", "H", "5", "M", "9", "S">>
    /\ duration = <<"6", "5", ":", "0", "9">>

\* C9: video_length is short exactly when the total is below 420 seconds.
C9_VideoLength ==
    dpc = "classified" =>
        /\ (video_length = "short" <=> TotalOf(iso_parts) < 420)
        /\ (video_length = "long" <=> TotalOf(iso_parts) >= 420)

C9_Witness ==
    /\ dpc = "classified"
    /\ TotalOf(iso_parts) = 420
    /\ video_length = "long"

\* ------------------------------------------------------------------------
\* Timestamps.  A fetched publishedAt is a UTC calendar reading
\* [day, hour, minute] (day counted from 1970-01-01, a Thursday); a pandas
\* Timestamp is an instant in minutes since the epoch with a UTC offset.

\* line 154: pd.to_datetime(..., utc=True)
to_datetime_utc(raw) ==
    [instant |-> raw.day * 1440 + raw.hour * 60 + raw.minute, utcoffset |-> 0]

\* tz_convert leaving the timestamp in UTC
tz_convert_utc(ts, offset) == ts

\* line 156: dt.tz_convert
tz_convert(ts, offset) == [ts EXCEPT !.utcoffset = offset]

\* dt.dayofweek (0 = Monday) and dt.hour: the wall clock of the timestamp
dayofweek(ts) == (((ts.instant + ts.utcoffset) \div 1440) + 3) % 7

hour(ts) == ((ts.instant + ts.utcoffset) % 1440) \div 60

\* line 159: the week lambda
week_of(x) == IF x >= 5 THEN "Weekend" ELSE "Weekday"

\* line 160: the time_slot lambda
time_slot_of(x) ==
    IF 5 <= x /\ x < 12 THEN "Morning"
    ELSE IF 12 <= x /\ x < 17 THEN "Noon" ELSE "Night"

RawTimestamps == [day : 0..MaxDay, hour : 0..23, minute : 0..59]

\* line 154
ToDatetime ==
    /\ tpc = "loaded"
    /\ published_at' = to_datetime_utc(published_at)
    /\ tpc' = "utc"
    /\ UNCHANGED <<raw_published, week, time_slot, publish_hour>>
    /\ UNCHANGED <<fetchVars, durVars, descVars, runVars>>

\* line 156
TzConvert ==
    /\ tpc = "utc"
    /\ published_at' = tz_convert(published_at, KolkataOffset)
    /\ tpc' = "local"
    /\ UNCHANGED <<raw_published, week, time_slot, publish_hour>>
    /\ UNCHANGED <<fetchVars, durVars, descVars, runVars>>

\* lines 159-160
DeriveWeekAndSlot ==
    /\ tpc = "local"
    /\ week' = week_of(dayofweek(published_at))
    /\ time_slot' = time_slot_of(hour(published_at))
    /\ tpc' = "derived"
    /\ UNCHANGED <<raw_published, published_at, publish_hour>>
    /\ UNCHANGED <<fetchVars, durVars, descVars, runVars>>

\* line 299
DerivePublishHour ==
    /\ tpc = "derived"
    /\ publish_hour' = hour(published_at)
    /\ tpc' = "hour"
    /\ UNCHANGED <<raw_published, published_at, week, time_slot>>
    /\ UNCHANGED <<fetchVars, durVars, descVars, runVars>>

InitTime ==
    /\ IdleFetch
    /\ IdleDur
    /\ IdleDesc
    /\ IdleRun
    /\ raw_published \in RawTimestamps
    /\ published_at = raw_published
    /\ week = "unset"
    /\ time_slot = "unset"
    /\ publish_hour = 0
    /\ tpc = "loaded"

NextTime == ToDatetime \/ TzConvert \/ DeriveWeekAndSlot \/ DerivePublishHour

SpecTime == InitTime /\ [][NextTime]_vars

\* ------------------------------------------------------------------------
\* Claims about the publish-time features

\* The Asia/Kolkata wall clock of a UTC calendar reading: 5 h 30 min later,
\* on the next day from 18:30 UTC on
LocalMinuteOfDay(raw) == (raw.hour * 60 + raw.minute + 330) % 1440

LocalHour(raw) == LocalMinuteOfDay(raw) \div 60

LocalDay(raw) == IF raw.hour * 60 + raw.minute >= 1110 THEN raw.day + 1 ELSE raw.day

LocalDayOfWeek(raw) == (LocalDay(raw) + 3) % 7

\* C8: week, time_slot and publish_hour follow the Asia/Kolkata wall clock.
C8_LocalFeatures ==
    LET h == LocalHour(raw_published)
        d == LocalDayOfWeek(raw_published)
    IN /\ tpc \in {"derived", "hour"} =>
            /\ (week = "Weekend" <=> d >= 5)
            /\ (week = "Weekday" <=> d < 5)
            /\ (time_slot = "Morning" <=> (5 <= h /\ h < 12))
            /\ (time_slot = "Noon" <=> (12 <= h /\ h < 17))
            /\ (time_slot = "Night" <=> (h < 5 \/ h >= 17))
       /\ tpc = "hour" => publish_hour = h

\* Friday 20:00 UTC is Saturday 01:30 in Asia/Kolkata
C8_Witness ==
    /\ tpc = "hour"
    /\ raw_published = [day |-> 1, hour |-> 20, minute |-> 0]
    /\ week = "Weekend"
    /\ time_slot = "Night"
    /\ publish_hour = 1

\* ------------------------------------------------------------------------
\* Export and reload.  A value of a table is a string, a number or NaN.

Str(s) == [kind |-> "str", val |-> s]
Num(n) == [kind |-> "num", val |-> n]
NaN == [kind |-> "nan"]

\* DataFrame.to_csv: the text of one cell
csv_cell(v) ==
    IF v.kind = "str" THEN v.val
    ELSE IF v.kind = "num" THEN IntToStr(v.val)
    ELSE <<>>

\* pd.read_csv: cells that read as missing (among its default na_values)
NaValues == { <<>>, <<"N", "A">>, <<"N", "/", "A">>, <<"n", "a", "n">>,
              <<"N", "a", "N">>, <<"n", "u", "l", "l">>, <<"N", "U", "L", "L">> }

IsNumeric(text) == text # <<>> /\ \A i \in 1..Len(text) : IsDigit(text[i])

\* pd.read_csv: one column.  Missing cells become NaN; the column is numeric
\* when every other cell is a number, and holds strings otherwise.
read_column(cells) ==
    LET present == {i \in 1..Len(cells) : cells[i] \notin NaValues}
        numeric == \A i \in present : IsNumeric(cells[i])
    IN [i \in 1..Len(cells) |->
          IF i \notin present THEN NaN
          ELSE IF numeric THEN Num(ParseNat(cells[i]))
          ELSE Str(cells[i])]

\* Whether the .str accessor exists: the column holds at least one string
HasStrAccessor(col) == \E i \in 1..Len(col) : col[i].kind = "str"

\* line 174: .str.len()
str_len(col) ==
    [i \in 1..Len(col) |-> IF col[i].kind = "str" THEN Num(Len(col[i].val)) ELSE NaN]

\* line 175: the description_type lambda; comparisons with NaN are false
description_type_of(x) ==
    IF x.kind = "num" /\ x.val <= 300 THEN "short"
    ELSE IF x.kind = "num" /\ 300 < x.val /\ x.val < 1500 THEN "medium"
    ELSE "long"

Repeat(c, n) == [i \in 1..n |-> c]

\* The description column of a fetch: a description of every length up to
\* MaxDescLen or one spelled like a missing-value marker, beside a second
\* record whose description is empty or not
DescColumns ==
    { <<d, e>> : d \in {Repeat("a", n) : n \in 0..MaxDescLen} \cup {<<"N", "A">>},
                 e \in {<<>>, <<"a", "b", "c">>} }

\* line 124: save_to_csv
SaveDescription ==
    /\ cpc = "fetched"
    /\ csv_desc' = [i \in 1..Len(fetched_desc) |-> csv_cell(Str(fetched_desc[i]))]
    /\ cpc' = "saved"
    /\ UNCHANGED <<fetched_desc, description, description_len, description_type>>
    /\ UNCHANGED <<fetchVars, durVars, timeVars, runVars>>

\* line 129: pd.read_csv
ReloadDescription ==
    /\ cpc = "saved"
    /\ description' = read_column(csv_desc)
    /\ cpc' = "loaded"
    /\ UNCHANGED <<fetched_desc, csv_desc, description_len, description_type>>
    /\ UNCHANGED <<fetchVars, durVars, timeVars, runVars>>

\* line 174: AttributeError when the column holds no string
DescriptionLen ==
    /\ cpc = "loaded"
    /\ IF HasStrAccessor(description)
       THEN /\ description_len' = str_len(description)
            /\ cpc' = "measured"
       ELSE /\ description_len' = description_len
            /\ cpc' = "failed"
    /\ UNCHANGED <<fetched_desc, csv_desc, description, description_type>>
    /\ UNCHANGED <<fetchVars, durVars, timeVars, runVars>>

\* line 175
DescriptionType ==
    /\ cpc = "measured"
    /\ description_type' =
          [i \in 1..Len(description_len) |-> description_type_of(description_len[i])]
    /\ cpc' = "typed"
    /\ UNCHANGED <<fetched_desc, csv_desc, description, description_len>>
    /\ UNCHANGED <<fetchVars, durVars, timeVars, runVars>>

InitDesc ==
    /\ IdleFetch
    /\ IdleDur
    /\ IdleTime
    /\ IdleRun
    /\ fetched_desc \in DescColumns
    /\ csv_desc = <<>>
    /\ description = <<>>
    /\ description_len = <<>>
    /\ description_type = <<>>
    /\ cpc = "fetched"

NextDesc == SaveDescription \/ ReloadDescription \/ DescriptionLen \/ DescriptionType

SpecDesc == InitDesc /\ [][NextDesc]_vars

\* ------------------------------------------------------------------------
\* Claims about the description length bucket

Bucket(n) == IF n <= 300 THEN "short" ELSE IF n < 1500 THEN "medium" ELSE "long"

\* C7: after export, reload and derivation every record's description_type is
\* the bucket of the character count of its description, the empty
\* description included.
C7_DescriptionType ==
    cpc = "typed" =>
        \A i \in 1..Len(fetched_desc) :
            description_type[i] = Bucket(Len(fetched_desc[i]))

\* ------------------------------------------------------------------------
\* Concurrent runs of the module-level pipeline.  Every run is one execution
\* of the script (one session); all of them name the same export file.

Runs == {1, 2}

Columns == <<"video_id", "view_count">>

\* The records a fetch can return: view_count is the API's string, or the
\* integer default 0 of line 38
RunRecords ==
    [video_id : {Str(<<"a">>), Str(<<"b">>)}, view_count : {Str(<<"7">>), Num(0)}]

RECURSIVE SeqsUpTo(_, _)
SeqsUpTo(S, n) ==
    IF n = 0 THEN {<<>>}
    ELSE SeqsUpTo(S, n - 1)
         \cup {Append(q, x) : q \in {q \in SeqsUpTo(S, n - 1) : Len(q) = n - 1}, x \in S}

Datasets == SeqsUpTo(RunRecords, MaxRunItems)

NoFile == [exists |-> FALSE, header |-> <<>>, rows |-> <<>>]

NoData == <<>>

\* lines 51-53: pd.DataFrame(data).to_csv(filename, index=False); an empty
\* list makes a frame without columns, hence a file without a header
to_csv(records) ==
    [exists |-> TRUE,
     header |-> IF records = <<>> THEN <<>> ELSE Columns,
     rows |-> [i \in 1..Len(records) |->
                 [j \in 1..Len(Columns) |-> csv_cell(records[i][Columns[j]])]]]

\* line 129: pd.read_csv of a file with a header
read_csv(f) ==
    LET col(j) == read_column([i \in 1..Len(f.rows) |-> f.rows[i][j]])
    IN [i \in 1..Len(f.rows) |->
          [video_id |-> col(1)[i], view_count |-> col(2)[i]]]

\* line 120: get_trending_videos returns
FetchOk(r) ==
    /\ rpc[r] = "start"
    /\ \E recs \in Datasets : trending_videos' = [trending_videos EXCEPT ![r] = recs]
    /\ rpc' = [rpc EXCEPT ![r] = "fetched"]
    /\ UNCHANGED <<file, data, wrote, auth_failed>>
    /\ UNCHANGED <<fetchVars, durVars, timeVars, descVars>>

\* line 120: request.execute() raises (invalid or quota-exhausted key); the
\* exception is not caught and ends the run
FetchFail(r) ==
    /\ rpc[r] = "start"
    /\ rpc' = [rpc EXCEPT ![r] = "aborted"]
    /\ auth_failed' = [auth_failed EXCEPT ![r] = TRUE]
    /\ UNCHANGED <<trending_videos, file, data, wrote>>
    /\ UNCHANGED <<fetchVars, durVars, timeVars, descVars>>

\* lines 123-124: save_to_csv(trending_videos, 'trending_videos.csv')
Save(r) ==
    /\ rpc[r] = "fetched"
    /\ file' = to_csv(trending_videos[r])
    /\ wrote' = [wrote EXCEPT ![r] = TRUE]
    /\ rpc' = [rpc EXCEPT ![r] = "saved"]
    /\ UNCHANGED <<trending_videos, data, auth_failed>>
    /\ UNCHANGED <<fetchVars, durVars, timeVars, descVars>>

\* line 129: data = pd.read_csv(filename); EmptyDataError on a file without
\* columns ends the run
Read(r) ==
    /\ rpc[r] = "saved"
    /\ IF file.header = <<>>
       THEN /\ rpc' = [rpc EXCEPT ![r] = "aborted"]
            /\ data' = data
       ELSE /\ rpc' = [rpc EXCEPT ![r] = "loaded"]
            /\ data' = [data EXCEPT ![r] = read_csv(file)]
    /\ UNCHANGED <<trending_videos, file, wrote, auth_failed>>
    /\ UNCHANGED <<fetchVars, durVars, timeVars, descVars>>

\* lines 130-267: overview, feature derivation and charts on the run's table
Analyse(r) ==
    /\ rpc[r] = "loaded"
    /\ rpc' = [rpc EXCEPT ![r] = "analysed"]
    /\ UNCHANGED <<trending_videos, file, data, wrote, auth_failed>>
    /\ UNCHANGED <<fetchVars, durVars, timeVars, descVars>>

\* lines 270-306: get_category_mapping returns and the run completes
CategoryOk(r) ==
    /\ rpc[r] = "analysed"
    /\ rpc' = [rpc EXCEPT ![r] = "done"]
    /\ UNCHANGED <<trending_videos, file, data, wrote, auth_failed>>
    /\ UNCHANGED <<fetchVars, durVars, timeVars, descVars>>

\* line 270: request.execute() of get_category_mapping (line 74) raises
CategoryFail(r) ==
    /\ rpc[r] = "analysed"
    /\ rpc' = [rpc EXCEPT ![r] = "aborted"]
    /\ auth_failed' = [auth_failed EXCEPT ![r] = TRUE]
    /\ UNCHANGED <<trending_videos, file, data, wrote>>
    /\ UNCHANGED <<fetchVars, durVars, timeVars, descVars>>

InitRun ==
    /\ IdleFetch
    /\ IdleDur
    /\ IdleTime
    /\ IdleDesc
    /\ rpc = [r \in Runs |-> "start"]
    /\ trending_videos = [r \in Runs |-> <<>>]
    /\ file = NoFile
    /\ data = [r \in Runs |-> NoData]
    /\ wrote = [r \in Runs |-> FALSE]
    /\ auth_failed = [r \in Runs |-> FALSE]

NextRun ==
    \E r \in Runs :
        \/ FetchOk(r)
        \/ FetchFail(r)
        \/ Save(r)
        \/ Read(r)
        \/ Analyse(r)
        \/ CategoryOk(r)
        \/ CategoryFail(r)

SpecRun == InitRun /\ [][NextRun]_vars

\* ------------------------------------------------------------------------
\* Claims about the pipeline's runs

\* C3: a run in which an API call failed has not written the export file.
C3_NothingExported ==
    \A r \in Runs : auth_failed[r] => ~wrote[r]

\* C4: the table a run has reloaded is the reload of the records that same
\* run fetched and exported.
C4_OwnExport ==
    \A r \in Runs :
        rpc[r] \in {"loaded", "analysed", "done"} =>
            data[r] = read_csv(to_csv(trending_videos[r]))

====
